---- MODULE Spec2Model ----
(***************************************************************************)
(* Verdis drone-survey orchestration.                                      *)
(*                                                                         *)
(* One call of ODMService.process_drone_survey (backend/odm_service.py),   *)
(* with the remote path NodeODMClient.process_drone_survey                 *)
(* (backend/nodeodm_client.py) and the local path _process_with_local_odm. *)
(* The remote service, the file system and the local executable are the    *)
(* environment: every answer they can give is a nondeterministic choice.   *)
(* Time is counted in whole seconds since wait_for_task took start_time.   *)
(* The locals of a function (elapsed of wait_for_task; downloads,          *)
(* next_download and downloaded_files of the remote path) return to their  *)
(* initial values when the function is left; status, task_uuid and calls   *)
(* keep what the call has observed so far, and download_log what the       *)
(* download loop has observed.                                             *)
(***************************************************************************)
EXTENDS Integers, Sequences, FiniteSets, TLC

\* ------------------------------------------------------------- bounds

\* Largest poll budget (seconds) and poll interval (seconds) wait_for_task is
\* called with, and the longest a single request or an oversleeping may take.
MaxTimeout == 3
MaxPollInterval == 2
MaxDelay == 1
\* Longest artifact list the remote service answers with.
MaxDownloads == 3
\* The pixels of an analysed image.
MaxPixels == 2
\* The image paths one call of the OpenCV processor is given.
MaxImages == 2
\* The calls of process_drone_survey made on one service.
MaxSurveys == 2
\* The seconds the clock advances while they run.
MaxClock == 1

\* The items of a download listing.
MaxItems == 3

\* The most contours found in an image.
MaxContours == 3

\* The most requests to the drone-survey endpoint.
MaxRequests == 2

\* The most direct create_ calls on the store.
MaxCalls == 2

\* The last second of the wall clock.
MaxSecond == 1

\* ------------------------------------------------------------- values

\* The largest value of an 8-bit channel (dtype=np.uint8).
MaxChannel == 255

None == "None"

\* Status strings of the remote protocol, a string outside the enum, and a
\* response that carries no status at all (.get('status') gives None).
StatusAnswers == {"QUEUED", "RUNNING", "COMPLETED", "FAILED", "PAUSED", None}

\* What a request can end in besides an answer: requests' RequestException.
RequestError == "request_error"

\* Artifact names the remote service lists.
RemoteNames == {"orthophoto.tif", "odm_orthophoto.tif", "ndvi.tif", "odm_ndvi.tif"}

\* Relative paths the local executable writes its rasters to.
LocalOutputs == {"odm_orthophoto/odm_orthophoto.tif", "odm_ndvi/odm_ndvi.tif"}

orthomosaic_patterns ==
    <<"odm_orthophoto/odm_orthophoto.tif", "odm_orthophoto.tif", "orthomosaic.tif">>

ndvi_patterns == <<"odm_ndvi/odm_ndvi.tif", "odm_ndvi.tif", "ndvi.tif">>

Operations ==
    {"remote", "local", "create", "status", "list", "download", "delete",
     "copy", "odm", "pipeline"}

SeqsUpTo(S, n) == UNION {[1..k -> S] : k \in 0..n}

\* The lists GET /task/{id}/download answers with: a listing names each
\* artifact once.
ArtifactLists ==
    {names \in SeqsUpTo(RemoteNames, MaxDownloads) :
        \A i, j \in 1..Len(names) : names[i] = names[j] => i = j}

\* ------------------------------------------------------------- state

VARIABLES
    pc,               \* position in the call
    use_nodeodm,      \* ODMService.use_nodeodm
    nodeodm_client,   \* ODMService.nodeodm_client is not None
    images_exist,     \* every path of image_files exists
    timeout,          \* wait_for_task's timeout
    poll_interval,    \* wait_for_task's poll_interval
    elapsed,          \* time.time() - start_time
    task_uuid,        \* the id create_task returned, or None
    status,           \* the last status a status query answered
    downloads,        \* get_task_downloads' list
    next_download,    \* position of the download loop in downloads
    downloaded_files, \* keys of downloaded_files
    download_log,     \* how each get_task_output call of the loop ended, in order
    project_files,    \* files below project_dir
    images_dir,       \* TRUE once the images were copied to project_dir/images
    run_result,       \* what _run_odm_processing returned
    remote_result,    \* what _process_with_nodeodm returned (or is about to)
    result,           \* what the call gave its caller
    calls,            \* how often each operation was started / requested
    cancel_requested, \* the caller has raised a cancellation signal
    image,            \* analyze_crop_health: the image, a sequence of BGR pixels
    health_analysis,  \* analyze_crop_health: the masks and the returned dictionary
    opencv_pc,        \* OpenCVImageProcessor.process_drone_survey: position
    image_paths,      \* stitch_images: how many image paths it was given
    images,           \* stitch_images: how many of the paths cv2.imread loaded
    opencv_files,     \* files in the processor's project_dir
    opencv_written,   \* files this call of the processor wrote
    stitching_result, \* keys of the result stitch_images has assembled
    opencv_result,    \* what the processor's call gave its caller
    now,              \* datetime.now(), in seconds
    invocations,      \* calls of ODMService.process_drone_survey on one service
    images_dirs,      \* project name -> files in output_dir/name/images
    response,         \* get_task_downloads: the JSON value _make_request returned
    listing,          \* get_task_downloads: how the call ended and the list it returned
    rgb,              \* generate_ndvi_map: the red and green channel of one pixel
    ndvi_colored,     \* generate_ndvi_map: the index and the colour of that pixel
    contours,         \* detect_field_boundaries: the areas of the contours found
    mosaic,           \* detect_field_boundaries: the input image
    boundary_image,   \* detect_field_boundaries: the image written
    boundaries,       \* detect_field_boundaries: the result returned
    second,           \* datetime.now() at the resolution of a second
    odm_service,      \* main.py: whether the global odm_service was initialised
    db_service,       \* main.py: whether the global db_service was initialised
    drone_surveys,    \* database.py: the rows of the table drone_surveys
    farm_areas,       \* database.py: the rows of the table farm_areas
    store_calls,      \* the create_ calls made on the store without an id
    handler           \* main.py process_drone_survey: the state of each request

surveyVars ==
    <<pc, use_nodeodm, nodeodm_client, images_exist, timeout, poll_interval,
      elapsed, task_uuid, status, downloads, next_download, downloaded_files,
      download_log, project_files, images_dir, run_result, remote_result, result, calls,
      cancel_requested>>

healthVars == <<image, health_analysis>>

opencvVars ==
    <<opencv_pc, image_paths, images, opencv_files, opencv_written,
      stitching_result, opencv_result>>

dirVars == <<now, invocations, images_dirs>>

\* ------------------------------------------------------------- results

NoResult ==
    [outcome |-> "none", backend |-> "none", status |-> "none", error |-> None,
     task_uuid |-> None, orthomosaic_path |-> None, ndvi_path |-> None,
     output_files |-> {}, log |-> None]

ErrorResult(backend, err, uuid) ==
    [NoResult EXCEPT !.outcome = "returned", !.backend = backend,
                     !.status = "error", !.error = err, !.task_uuid = uuid]

Raised(backend, err) ==
    [NoResult EXCEPT !.outcome = "raised", !.backend = backend, !.error = err]

NoRun == [status |-> "none", log |-> None, exit |-> "none"]

Bump(c, op) == [c EXCEPT ![op] = @ + 1]

\* The two names looked up in the opposite order.
GetOrSwapped(files, a, b) ==
    IF b \in files THEN b ELSE IF a \in files THEN a ELSE None

\* d.get(a) or d.get(b) over the downloaded files.
GetOr(files, a, b) == IF a \in files THEN a ELSE IF b \in files THEN b ELSE None

RECURSIVE FirstExisting(_, _, _)
FirstExisting(patterns, files, i) ==
    IF i > Len(patterns) THEN None
    ELSE IF patterns[i] \in files THEN patterns[i]
    ELSE FirstExisting(patterns, files, i + 1)

_find_orthomosaic(files) == FirstExisting(orthomosaic_patterns, files, 1)

_find_ndvi(files) == FirstExisting(ndvi_patterns, files, 1)

\* ------------------------------------------------------------- Init

SurveyInit ==
    /\ pc = "init"
    /\ use_nodeodm = FALSE
    /\ nodeodm_client = FALSE
    /\ images_exist \in BOOLEAN
    /\ timeout \in 1..MaxTimeout
    /\ poll_interval \in 1..MaxPollInterval
    /\ elapsed = 0
    /\ task_uuid = None
    /\ status = None
    /\ downloads = <<>>
    /\ next_download = 1
    /\ downloaded_files = {}
    /\ download_log = <<>>
    /\ project_files = {}
    /\ images_dir = FALSE
    /\ run_result = NoRun
    /\ remote_result = NoResult
    /\ result = NoResult
    /\ calls = [op \in Operations |-> 0]
    /\ cancel_requested = FALSE

\* One fixed call of the survey, waiting to be constructed.
SurveyIdle == SurveyInit /\ images_exist /\ timeout = 1 /\ poll_interval = 1

\* analyze_crop_health before it ran.
NoAnalysis ==
    [analysed |-> FALSE, healthy_mask |-> {}, stressed_mask |-> {},
     unhealthy_mask |-> {}, total_pixels |-> 0, healthy_percentage |-> 0,
     stressed_percentage |-> 0, unhealthy_percentage |-> 0,
     overall_health_score |-> 0]

HealthIdle == image = <<>> /\ health_analysis = NoAnalysis

\* The OpenCV processor's call before it gave its caller anything.
NoOpencvResult == [outcome |-> "none", status |-> None, error |-> None, fields |-> {}]

OpencvIdle ==
    /\ opencv_pc = "idle"
    /\ image_paths = 0
    /\ images = 0
    /\ opencv_files = {}
    /\ opencv_written = {}
    /\ stitching_result = {}
    /\ opencv_result = NoOpencvResult

\* survey_<YYYYmmdd_HHMMSS>: the default project name at second t.
DefaultName(t) == "survey_" \o ToString(t)

\* The names a caller gives its projects.
GivenNames == {"field"}

ProjectNames == GivenNames \cup {DefaultName(t) : t \in 0..MaxClock}

\* The base names of the image files callers submit.
ImageNames == {"a.jpg", "b.jpg"}

NotCalled == [pc |-> "new", project_name |-> None, image_files |-> {}, seen |-> {}]

DirsIdle ==
    /\ now = 0
    /\ invocations = [i \in 1..MaxSurveys |-> NotCalled]
    /\ images_dirs = [name \in ProjectNames |-> {}]

listingVars == <<response, listing>>

\* get_task_downloads before it was called.
NoListing == [outcome |-> "none", files |-> <<>>]

\* A response that is not looked at.
NoResponse == [kind |-> "none", files_kind |-> "absent", items |-> <<>>]

ListingIdle == response = NoResponse /\ listing = NoListing

ndviVars == <<rgb, ndvi_colored>>

\* generate_ndvi_map before the pixel was coloured. The index is num / den;
\* below tells that floating-point rounding left it just under that value.
NoColour ==
    [done |-> FALSE, band |-> 0, num |-> 0, den |-> 1, below |-> FALSE,
     blue_intensity |-> 0, green_intensity |-> 0, red_intensity |-> 0]

NdviIdle == rgb = <<0, 0>> /\ ndvi_colored = NoColour

boundaryVars == <<contours, mosaic, boundary_image, boundaries>>

\* An image: its pixels and the contours drawn on it.
Mosaic == [pixels |-> "mosaic", drawn |-> {}]

NoBoundaries == [done |-> FALSE, total_contours |-> 0, large_contours |-> 0]

BoundariesIdle ==
    /\ contours = <<>>
    /\ mosaic = Mosaic
    /\ boundary_image = None
    /\ boundaries = NoBoundaries

apiVars == <<second, odm_service, db_service, drone_surveys, farm_areas, store_calls, handler>>

\* A request to /api/process-drone-survey before the handler ran.
NoRequest ==
    [pc |-> "start", service |-> "not_called", client |-> "not_called",
     mock |-> FALSE, task_id |-> None,
     survey_data |-> [id |-> None, status |-> None],
     response |-> [status |-> "none", survey_id |-> None]]

Requests == 1..MaxRequests

ApiIdle ==
    /\ second = 0
    /\ odm_service = FALSE
    /\ db_service = FALSE
    /\ drone_surveys = {}
    /\ farm_areas = {}
    /\ store_calls = <<>>
    /\ handler = [q \in Requests |-> NoRequest]

\* ------------------------------------------------------------- frames

vars ==
    <<surveyVars, healthVars, opencvVars, dirVars, listingVars,
      ndviVars, boundaryVars, apiVars>>

\* What the actions of one part of the program leave alone: the state of
\* the other parts.
otherVars ==
    <<healthVars, opencvVars, dirVars, listingVars, ndviVars,
      boundaryVars, apiVars>>

exceptHealth ==
    <<surveyVars, opencvVars, dirVars, listingVars, ndviVars,
      boundaryVars, apiVars>>

exceptOpencv ==
    <<surveyVars, healthVars, dirVars, listingVars, ndviVars,
      boundaryVars, apiVars>>

exceptDirs ==
    <<surveyVars, healthVars, opencvVars, listingVars, ndviVars,
      boundaryVars, apiVars>>

exceptListing ==
    <<surveyVars, healthVars, opencvVars, dirVars, ndviVars,
      boundaryVars, apiVars>>

exceptNdvi ==
    <<surveyVars, healthVars, opencvVars, dirVars, listingVars,
      boundaryVars, apiVars>>

exceptBoundaries ==
    <<surveyVars, healthVars, opencvVars, dirVars, listingVars,
      ndviVars, apiVars>>

exceptApi ==
    <<surveyVars, healthVars, opencvVars, dirVars, listingVars,
      ndviVars, boundaryVars>>

\* The other parts before anything was called on them.
IdleExceptSurvey ==
    /\ HealthIdle
    /\ OpencvIdle
    /\ DirsIdle
    /\ ListingIdle
    /\ NdviIdle
    /\ BoundariesIdle
    /\ ApiIdle

IdleExceptHealth ==
    /\ SurveyIdle
    /\ OpencvIdle
    /\ DirsIdle
    /\ ListingIdle
    /\ NdviIdle
    /\ BoundariesIdle
    /\ ApiIdle

IdleExceptOpencv ==
    /\ SurveyIdle
    /\ HealthIdle
    /\ DirsIdle
    /\ ListingIdle
    /\ NdviIdle
    /\ BoundariesIdle
    /\ ApiIdle

IdleExceptDirs ==
    /\ SurveyIdle
    /\ HealthIdle
    /\ OpencvIdle
    /\ ListingIdle
    /\ NdviIdle
    /\ BoundariesIdle
    /\ ApiIdle

IdleExceptListing ==
    /\ SurveyIdle
    /\ HealthIdle
    /\ OpencvIdle
    /\ DirsIdle
    /\ NdviIdle
    /\ BoundariesIdle
    /\ ApiIdle

IdleExceptNdvi ==
    /\ SurveyIdle
    /\ HealthIdle
    /\ OpencvIdle
    /\ DirsIdle
    /\ ListingIdle
    /\ BoundariesIdle
    /\ ApiIdle

IdleExceptBoundaries ==
    /\ SurveyIdle
    /\ HealthIdle
    /\ OpencvIdle
    /\ DirsIdle
    /\ ListingIdle
    /\ NdviIdle
    /\ ApiIdle

IdleExceptApi ==
    /\ SurveyIdle
    /\ HealthIdle
    /\ OpencvIdle
    /\ DirsIdle
    /\ ListingIdle
    /\ NdviIdle
    /\ BoundariesIdle

Init == SurveyInit /\ IdleExceptSurvey

\* ------------------------------------------------------------- ODMService

\* ODMService.__init__: the client exists only when NodeODM was asked for, the
\* module could be imported and the constructor did not raise.
Construct ==
    /\ pc = "init"
    /\ \E use_arg \in BOOLEAN, client_ok \in BOOLEAN :
          /\ use_nodeodm' = (use_arg /\ client_ok)
          /\ nodeodm_client' = (use_arg /\ client_ok)
    /\ pc' = "ready"
    /\ UNCHANGED <<images_exist, timeout, poll_interval, elapsed, task_uuid,
                   status, downloads, next_download, downloaded_files, download_log,
                   project_files, images_dir, run_result, remote_result,
                   result, calls, cancel_requested>>
    /\ UNCHANGED otherVars

\* A backend choice that ignores the preference flag and the client.
SelectRemoteAlways == TRUE

\* if self.use_nodeodm and self.nodeodm_client:
SelectRemote == use_nodeodm /\ nodeodm_client

\* No fallback at all: the remote result is returned whatever its status.
NoFallback(res) == FALSE

\* Fallback that lets an unknown-status error through to the caller.
NeedsFallbackButUnknown(res) == res.status # "success" /\ res.error # "unknown_status"

\* A fallback that also runs when the remote run gave no orthomosaic.
NeedsFallbackWithoutArtifacts(res) ==
    res.status # "success" \/ res.orthomosaic_path = None

\* if result.get("status") != "success":
NeedsFallback(res) == res.status # "success"

\* process_drone_survey, up to the choice of the backend.
StartSurvey ==
    /\ pc = "ready"
    /\ IF SelectRemote
       THEN pc' = "create_task" /\ calls' = Bump(calls, "remote")
       ELSE pc' = "local_copy" /\ calls' = Bump(calls, "local")
    /\ UNCHANGED <<use_nodeodm, nodeodm_client, images_exist, timeout,
                   poll_interval, elapsed, task_uuid, status, downloads,
                   next_download, downloaded_files, download_log, project_files, images_dir,
                   run_result, remote_result, result, cancel_requested>>
    /\ UNCHANGED otherVars

\* process_drone_survey after _process_with_nodeodm returned.
AfterRemote ==
    /\ pc = "remote_done"
    /\ IF NeedsFallback(remote_result)
       THEN /\ pc' = "local_copy"
            /\ calls' = Bump(calls, "local")
            /\ UNCHANGED result
       ELSE /\ pc' = "done"
            /\ result' = remote_result
            /\ UNCHANGED calls
    /\ UNCHANGED <<use_nodeodm, nodeodm_client, images_exist, timeout,
                   poll_interval, elapsed, task_uuid, status, downloads,
                   next_download, downloaded_files, download_log, project_files, images_dir,
                   run_result, remote_result, cancel_requested>>
    /\ UNCHANGED otherVars

\* ------------------------------------------------------------- NodeODMClient

CreateAnswers ==
    {"uuid", "http_error", "connection_error", "no_uuid", "null_uuid", "empty_uuid"}

\* response_data.get('uuid') of an answered POST /task/new: the id, None when
\* the key is absent or null, the empty string.
ResponseUuid(answer) ==
    IF answer = "uuid" THEN "task-1"
    ELSE IF answer = "empty_uuid" THEN ""
    ELSE None

\* A check for a missing id that lets the empty string through.
IsNone(value) == value = None

\* if not task_uuid:
Falsy(value) == value \in {None, ""}

\* create_task, called outside the try of NodeODMClient.process_drone_survey:
\* whatever it raises reaches the except of _process_with_nodeodm.
CreateTask ==
    /\ pc = "create_task"
    /\ IF ~images_exist
       THEN /\ remote_result' = ErrorResult("remote", "file_not_found", None)
            /\ pc' = "remote_done"
            /\ UNCHANGED <<calls, task_uuid, elapsed>>
       ELSE \E answer \in CreateAnswers :
               /\ calls' = Bump(calls, "create")
               /\ IF answer \in {"http_error", "connection_error"}
                  THEN /\ remote_result' = ErrorResult("remote", answer, None)
                       /\ pc' = "remote_done"
                       /\ UNCHANGED <<task_uuid, elapsed>>
                  ELSE IF Falsy(ResponseUuid(answer))
                  THEN /\ remote_result' = ErrorResult("remote", "no_uuid", None)
                       /\ pc' = "remote_done"
                       /\ UNCHANGED <<task_uuid, elapsed>>
                  ELSE /\ task_uuid' = ResponseUuid(answer)
                       /\ elapsed' = 0
                       /\ pc' = "wait_check"
                       /\ UNCHANGED remote_result
    /\ UNCHANGED <<use_nodeodm, nodeodm_client, images_exist, timeout,
                   poll_interval, status, downloads, next_download,
                   downloaded_files, download_log, project_files, images_dir,
                   run_result, result, cancel_requested>>
    /\ UNCHANGED otherVars

\* The budget compared in the wrong unit.
TimedOutLate(e, t) == e > 3 * t

\* if time.time() - start_time > timeout:
TimedOut(e, t) == e > t

\* A loop top that also reads the caller's cancellation signal.
WaitCheckCancellable ==
    /\ pc = "wait_check"
    /\ IF cancel_requested
       THEN /\ remote_result' = ErrorResult("remote", "cancelled", task_uuid)
            /\ pc' = "cleanup"
            /\ elapsed' = 0
       ELSE IF TimedOut(elapsed, timeout)
       THEN /\ remote_result' = ErrorResult("remote", "timeout", task_uuid)
            /\ pc' = "cleanup"
            /\ elapsed' = 0
       ELSE /\ pc' = "wait_query"
            /\ UNCHANGED <<remote_result, elapsed>>
    /\ UNCHANGED <<use_nodeodm, nodeodm_client, images_exist, timeout,
                   poll_interval, task_uuid, status, downloads,
                   next_download, downloaded_files, download_log, project_files, images_dir,
                   run_result, result, calls, cancel_requested>>
    /\ UNCHANGED otherVars

\* wait_for_task: the timeout check at the top of the loop.
WaitCheck ==
    /\ pc = "wait_check"
    /\ IF TimedOut(elapsed, timeout)
       THEN /\ remote_result' = ErrorResult("remote", "timeout", task_uuid)
            /\ pc' = "cleanup"
            /\ elapsed' = 0
       ELSE /\ pc' = "wait_query"
            /\ UNCHANGED <<remote_result, elapsed>>
    /\ UNCHANGED <<use_nodeodm, nodeodm_client, images_exist, timeout,
                   poll_interval, task_uuid, status, downloads,
                   next_download, downloaded_files, download_log, project_files, images_dir,
                   run_result, result, calls, cancel_requested>>
    /\ UNCHANGED otherVars

\* A status comparison that takes every known status but FAILED for COMPLETED.
AfterStatusEager(answer) ==
    IF answer \in {"COMPLETED", "QUEUED", "RUNNING"} THEN "list_downloads"
    ELSE IF answer = "FAILED" THEN "task_failed"
    ELSE "unknown_status"

\* A wait that polls again on a status it does not know.
AfterStatusLenient(answer) ==
    IF answer = "COMPLETED" THEN "list_downloads"
    ELSE IF answer = "FAILED" THEN "task_failed"
    ELSE "wait_sleep"

\* Where wait_for_task goes on a status answer.
AfterStatus(answer) ==
    IF answer = "COMPLETED" THEN "list_downloads"
    ELSE IF answer = "FAILED" THEN "task_failed"
    ELSE IF answer \in {"QUEUED", "RUNNING"} THEN "wait_sleep"
    ELSE "unknown_status"

\* wait_for_task: get_task_info and the branch on the status.
WaitQuery ==
    /\ pc = "wait_query"
    /\ calls' = Bump(calls, "status")
    /\ \E d \in 0..MaxDelay, answer \in StatusAnswers \cup {RequestError} :
          IF answer = RequestError
          THEN /\ remote_result' = ErrorResult("remote", RequestError, task_uuid)
               /\ pc' = "cleanup"
               /\ elapsed' = 0
               /\ UNCHANGED status
          ELSE /\ status' = answer
               /\ IF AfterStatus(answer) \in {"task_failed", "unknown_status"}
                  THEN /\ remote_result' =
                              ErrorResult("remote", AfterStatus(answer), task_uuid)
                       /\ pc' = "cleanup"
                       /\ elapsed' = 0
                  ELSE /\ pc' = AfterStatus(answer)
                       /\ elapsed' = IF answer = "COMPLETED" THEN 0 ELSE elapsed + d
                       /\ UNCHANGED remote_result
    /\ UNCHANGED <<use_nodeodm, nodeodm_client, images_exist, timeout,
                   poll_interval, task_uuid, downloads, next_download,
                   downloaded_files, download_log, project_files, images_dir, run_result,
                   result, cancel_requested>>
    /\ UNCHANGED otherVars

\* A loop that goes on to the next poll without sleeping.
WaitSleepBusy ==
    /\ pc = "wait_sleep"
    /\ pc' = "wait_check"
    /\ UNCHANGED <<use_nodeodm, nodeodm_client, images_exist, timeout,
                   poll_interval, elapsed, task_uuid, status, downloads,
                   next_download, downloaded_files, download_log, project_files,
                   images_dir, run_result, remote_result, result, calls,
                   cancel_requested>>
    /\ UNCHANGED otherVars

\* wait_for_task: time.sleep(poll_interval), which sleeps at least that long.
WaitSleep ==
    /\ pc = "wait_sleep"
    /\ \E d \in 0..MaxDelay : elapsed' = elapsed + poll_interval + d
    /\ pc' = "wait_check"
    /\ UNCHANGED <<use_nodeodm, nodeodm_client, images_exist, timeout,
                   poll_interval, task_uuid, status, downloads, next_download,
                   downloaded_files, download_log, project_files, images_dir, run_result,
                   remote_result, result, calls, cancel_requested>>
    /\ UNCHANGED otherVars

\* get_task_downloads: the list of names, or the request fails.
ListDownloads ==
    /\ pc = "list_downloads"
    /\ calls' = Bump(calls, "list")
    /\ \/ \E names \in ArtifactLists :
             /\ downloads' = names
             /\ next_download' = 1
             /\ pc' = "download"
             /\ UNCHANGED remote_result
       \/ /\ remote_result' = ErrorResult("remote", RequestError, task_uuid)
          /\ pc' = "cleanup"
          /\ UNCHANGED <<downloads, next_download>>
    /\ UNCHANGED <<use_nodeodm, nodeodm_client, images_exist, timeout,
                   poll_interval, elapsed, task_uuid, status, downloaded_files, download_log,
                   project_files, images_dir, run_result, result,
                   cancel_requested>>
    /\ UNCHANGED otherVars

\* How one get_task_output can end: the file written (True); the request
\* refused (False, nothing written); the stream broken after the file was
\* opened (False, a partial file); open() failing, which is no
\* RequestException and leaves get_task_output as an error.
DownloadOutcomes == {"ok", "refused", "broken_stream", "os_error"}

\* A download loop that any failed download aborts.
DownloadOneAborting ==
    /\ pc = "download"
    /\ next_download <= Len(downloads)
    /\ calls' = Bump(calls, "download")
    /\ \E outcome \in DownloadOutcomes :
          LET filename == downloads[next_download] IN
          /\ downloaded_files' =
                IF outcome = "ok" THEN downloaded_files \cup {filename}
                ELSE downloaded_files
          /\ download_log' = Append(download_log, outcome)
          /\ project_files' =
                IF outcome \in {"ok", "broken_stream"}
                THEN project_files \cup {filename} ELSE project_files
          /\ IF outcome # "ok"
             THEN /\ remote_result' = ErrorResult("remote", outcome, task_uuid)
                  /\ pc' = "cleanup"
                  /\ UNCHANGED next_download
             ELSE /\ next_download' = next_download + 1
                  /\ UNCHANGED <<pc, remote_result>>
    /\ UNCHANGED <<use_nodeodm, nodeodm_client, images_exist, timeout,
                   poll_interval, elapsed, task_uuid, status, downloads,
                   images_dir, run_result, result, cancel_requested>>
    /\ UNCHANGED otherVars

\* One turn of the download loop.
DownloadOne ==
    /\ pc = "download"
    /\ next_download <= Len(downloads)
    /\ calls' = Bump(calls, "download")
    /\ \E outcome \in DownloadOutcomes :
          LET filename == downloads[next_download] IN
          /\ downloaded_files' =
                IF outcome = "ok" THEN downloaded_files \cup {filename}
                ELSE downloaded_files
          /\ download_log' = Append(download_log, outcome)
          /\ project_files' =
                IF outcome \in {"ok", "broken_stream"}
                THEN project_files \cup {filename} ELSE project_files
          /\ IF outcome = "os_error"
             THEN /\ remote_result' = ErrorResult("remote", "os_error", task_uuid)
                  /\ pc' = "cleanup"
                  /\ UNCHANGED next_download
             ELSE /\ next_download' = next_download + 1
                  /\ UNCHANGED <<pc, remote_result>>
    /\ UNCHANGED <<use_nodeodm, nodeodm_client, images_exist, timeout,
                   poll_interval, elapsed, task_uuid, status, downloads,
                   images_dir, run_result, result, cancel_requested>>
    /\ UNCHANGED otherVars

\* The result NodeODMClient.process_drone_survey returns after the loop.
RemoteSuccess(files, uuid) ==
    [NoResult EXCEPT !.outcome = "returned", !.backend = "remote",
                     !.status = "success", !.task_uuid = uuid,
                     !.orthomosaic_path = GetOr(files, "orthophoto.tif", "odm_orthophoto.tif"),
                     !.ndvi_path = GetOr(files, "ndvi.tif", "odm_ndvi.tif"),
                     !.output_files = files]

ReturnRemote ==
    /\ pc = "download"
    /\ next_download > Len(downloads)
    /\ remote_result' = RemoteSuccess(downloaded_files, task_uuid)
    /\ pc' = "cleanup"
    /\ UNCHANGED <<use_nodeodm, nodeodm_client, images_exist, timeout,
                   poll_interval, elapsed, task_uuid, status, downloads,
                   next_download, downloaded_files, download_log, project_files, images_dir,
                   run_result, result, calls, cancel_requested>>
    /\ UNCHANGED otherVars

\* A cleanup whose failure replaces the value being returned.
AfterDeleteEscalating(res, deleted) ==
    IF deleted THEN res ELSE ErrorResult("remote", "delete_failed", res.task_uuid)

\* The finally clause: delete_task turns every error into False, and the
\* value already being returned stays what it was.
AfterDelete(res, deleted) == res

DeleteTask ==
    /\ pc = "cleanup"
    /\ calls' = Bump(calls, "delete")
    /\ \E deleted \in BOOLEAN : remote_result' = AfterDelete(remote_result, deleted)
    /\ pc' = "remote_done"
    /\ downloads' = <<>>
    /\ next_download' = 1
    /\ downloaded_files' = {}
    /\ download_log' = <<>>
    /\ UNCHANGED <<use_nodeodm, nodeodm_client, images_exist, timeout,
                   poll_interval, elapsed, task_uuid, status, project_files,
                   images_dir, run_result, result, cancel_requested>>
    /\ UNCHANGED otherVars

\* ------------------------------------------------------------- local path

\* _process_with_local_odm before its try: shutil.copy2 of every image.
LocalCopy ==
    /\ pc = "local_copy"
    /\ IF images_exist
       THEN /\ images_dir' = TRUE
            /\ calls' = Bump(calls, "copy")
            /\ pc' = "local_run"
            /\ UNCHANGED result
       ELSE /\ result' = Raised("local", "file_not_found")
            /\ pc' = "done"
            /\ UNCHANGED <<images_dir, calls>>
    /\ UNCHANGED <<use_nodeodm, nodeodm_client, images_exist, timeout,
                   poll_interval, elapsed, task_uuid, status, downloads,
                   next_download, downloaded_files, download_log, project_files, run_result,
                   remote_result, cancel_requested>>
    /\ UNCHANGED otherVars

\* How subprocess.run can end.
RunOutcomes == {"exit0", "nonzero", "timeout", "not_started"}

\* A runner that reports a timeout as an error and swaps the captured streams.
RunResultConfused(outcome) ==
    [status |-> IF outcome = "exit0" THEN "success" ELSE "error",
     log |-> IF outcome = "exit0" THEN "stderr"
             ELSE IF outcome = "nonzero" THEN "stdout"
             ELSE "exception",
     exit |-> outcome]

\* The dictionary _run_odm_processing returns (status, log), with how
\* subprocess.run ended.
RunResult(outcome) ==
    [status |-> IF outcome = "exit0" THEN "success"
                ELSE IF outcome = "timeout" THEN "timeout"
                ELSE "error",
     log |-> IF outcome = "exit0" THEN "stdout"
             ELSE IF outcome = "nonzero" THEN "stderr"
             ELSE IF outcome = "timeout" THEN "timed out"
             ELSE "exception",
     exit |-> outcome]

\* _run_odm_processing: one subprocess.run; a run that started may have
\* written rasters below project_dir.
RunOdm ==
    /\ pc = "local_run"
    /\ calls' = Bump(calls, "odm")
    /\ \E outcome \in RunOutcomes, written \in SUBSET LocalOutputs :
          /\ outcome = "not_started" => written = {}
          /\ run_result' = RunResult(outcome)
          /\ project_files' = project_files \cup written
    /\ pc' = "local_return"
    /\ UNCHANGED <<use_nodeodm, nodeodm_client, images_exist, timeout,
                   poll_interval, elapsed, task_uuid, status, downloads,
                   next_download, downloaded_files, download_log, images_dir, remote_result,
                   result, cancel_requested>>
    /\ UNCHANGED otherVars

\* The dictionary _process_with_local_odm returns from its try.
LocalResult(run, files) ==
    [NoResult EXCEPT !.outcome = "returned", !.backend = "local",
                     !.status = "success",
                     !.orthomosaic_path = _find_orthomosaic(files),
                     !.ndvi_path = _find_ndvi(files),
                     !.log = run.log]

\* A local path that goes back to the remote backend when its run failed.
LocalReturnRetryRemote ==
    /\ pc = "local_return"
    /\ IF run_result.status # "success" /\ SelectRemote /\ calls["remote"] < 2
       THEN /\ pc' = "create_task"
            /\ calls' = Bump(calls, "remote")
            /\ UNCHANGED result
       ELSE /\ result' = LocalResult(run_result, project_files)
            /\ pc' = "done"
            /\ UNCHANGED calls
    /\ UNCHANGED <<use_nodeodm, nodeodm_client, images_exist, timeout,
                   poll_interval, elapsed, task_uuid, status, downloads,
                   next_download, downloaded_files, download_log, project_files, images_dir,
                   run_result, remote_result, cancel_requested>>
    /\ UNCHANGED otherVars

\* A local path that runs the image-analysis pipeline on the raw images when
\* its run failed.
LocalReturnDegraded ==
    /\ pc = "local_return"
    /\ result' = LocalResult(run_result, project_files)
    /\ calls' = IF run_result.status # "success" THEN Bump(calls, "pipeline") ELSE calls
    /\ pc' = "done"
    /\ UNCHANGED <<use_nodeodm, nodeodm_client, images_exist, timeout,
                   poll_interval, elapsed, task_uuid, status, downloads,
                   next_download, downloaded_files, download_log, project_files, images_dir,
                   run_result, remote_result, cancel_requested>>
    /\ UNCHANGED otherVars

LocalReturn ==
    /\ pc = "local_return"
    /\ result' = LocalResult(run_result, project_files)
    /\ pc' = "done"
    /\ UNCHANGED <<use_nodeodm, nodeodm_client, images_exist, timeout,
                   poll_interval, elapsed, task_uuid, status, downloads,
                   next_download, downloaded_files, download_log, project_files, images_dir,
                   run_result, remote_result, calls, cancel_requested>>
    /\ UNCHANGED otherVars

\* ------------------------------------------------------------- caller

\* The caller raises its cancellation signal while the survey runs.
RequestCancel ==
    /\ pc \notin {"init", "done"}
    /\ ~cancel_requested
    /\ cancel_requested' = TRUE
    /\ UNCHANGED <<pc, use_nodeodm, nodeodm_client, images_exist, timeout,
                   poll_interval, elapsed, task_uuid, status, downloads,
                   next_download, downloaded_files, download_log, project_files, images_dir,
                   run_result, remote_result, result, calls>>
    /\ UNCHANGED otherVars

Next ==
    \/ Construct
    \/ StartSurvey
    \/ CreateTask
    \/ WaitCheck
    \/ WaitQuery
    \/ WaitSleep
    \/ ListDownloads
    \/ DownloadOne
    \/ ReturnRemote
    \/ DeleteTask
    \/ AfterRemote
    \/ LocalCopy
    \/ RunOdm
    \/ LocalReturn
    \/ RequestCancel

Spec == Init /\ [][Next]_vars

\* ------------------------------------------------------------- crop health

\* The channel values the analysed pixels take.
Levels == {0, 30, 50, 60}

\* A pixel as cv2 holds it: <<blue, green, red>>.
Pixels == Levels \X Levels \X Levels

Max3(a, b, c) == IF a >= b /\ a >= c THEN a ELSE IF b >= c THEN b ELSE c

Min3(a, b, c) == IF a <= b /\ a <= c THEN a ELSE IF b <= c THEN b ELSE c

\* n / d rounded to the nearest integer, halves up (d > 0).
RoundDiv(n, d) == (2 * n + d) \div (2 * d)

\* Python's round(): n / d rounded to the nearest integer, halves to even.
RoundHalfEven(n, d) ==
    LET q == n \div d
        r == n % d
    IN  IF 2 * r < d THEN q
        ELSE IF 2 * r > d THEN q + 1
        ELSE IF q % 2 = 0 THEN q ELSE q + 1

\* cv2.cvtColor(image, cv2.COLOR_BGR2HSV) on one 8-bit pixel: V is the
\* largest channel, S = 255 (V - min) / V, H is half the hue angle in
\* degrees (0..179); the result is <<H, S, V>>.
BGR2HSV(px) ==
    LET b == px[1]
        g == px[2]
        r == px[3]
        v == Max3(b, g, r)
        diff == v - Min3(b, g, r)
        raw == IF v = r THEN g - b
               ELSE IF v = g THEN b - r + 2 * diff
               ELSE r - g + 4 * diff
        h == IF diff = 0 THEN 0 ELSE RoundDiv(30 * raw, diff)
    IN  << IF h < 0 THEN h + 180 ELSE h,
           IF v = 0 THEN 0 ELSE RoundDiv(255 * diff, v),
           v >>

healthy_lower == <<35, 40, 40>>
healthy_upper == <<85, 255, 255>>
stressed_lower == <<15, 40, 40>>
stressed_upper == <<35, 255, 255>>
unhealthy_lower == <<0, 40, 40>>
unhealthy_upper == <<15, 255, 255>>

\* cv2.inRange on one pixel: every channel within its bounds, both included.
InRange(px, lower, upper) ==
    \A c \in 1..3 : lower[c] <= px[c] /\ px[c] <= upper[c]

\* The mask of a band: the positions of the pixels cv2.inRange marks.
Mask(hsv, lower, upper) ==
    {i \in 1..Len(hsv) : InRange(hsv[i], lower, upper)}

\* round((pixels / total_pixels) * 100, 2), in hundredths of a percent.
Percentage(pixels, total_pixels) == RoundHalfEven(pixels * 10000, total_pixels)

\* round((healthy% * 1.0 + stressed% * 0.5 + unhealthy% * 0.0) / 100, 3), in
\* thousandths, from the unrounded percentages.
HealthScore(healthy_pixels, stressed_pixels, unhealthy_pixels, total_pixels) ==
    RoundHalfEven((2 * healthy_pixels + stressed_pixels) * 1000, 2 * total_pixels)

\* analyze_crop_health on a non-empty image.
AnalyzeCropHealth ==
    /\ ~health_analysis.analysed
    /\ LET hsv == [i \in 1..Len(image) |-> BGR2HSV(image[i])]
           healthy_mask == Mask(hsv, healthy_lower, healthy_upper)
           stressed_mask == Mask(hsv, stressed_lower, stressed_upper)
           unhealthy_mask == Mask(hsv, unhealthy_lower, unhealthy_upper)
           total_pixels == Len(image)
           healthy_pixels == Cardinality(healthy_mask)
           stressed_pixels == Cardinality(stressed_mask)
           unhealthy_pixels == Cardinality(unhealthy_mask)
       IN  health_analysis' =
              [analysed |-> TRUE,
               healthy_mask |-> healthy_mask,
               stressed_mask |-> stressed_mask,
               unhealthy_mask |-> unhealthy_mask,
               total_pixels |-> total_pixels,
               healthy_percentage |-> Percentage(healthy_pixels, total_pixels),
               stressed_percentage |-> Percentage(stressed_pixels, total_pixels),
               unhealthy_percentage |-> Percentage(unhealthy_pixels, total_pixels),
               overall_health_score |->
                   HealthScore(healthy_pixels, stressed_pixels, unhealthy_pixels,
                               total_pixels)]
    /\ UNCHANGED <<image, exceptHealth>>

\* Any image of one to MaxPixels pixels, not yet analysed.
InitHealth ==
    /\ image \in UNION {[1..k -> Pixels] : k \in 1..MaxPixels}
    /\ health_analysis = NoAnalysis
    /\ IdleExceptHealth

NextHealth == AnalyzeCropHealth

SpecHealth == InitHealth /\ [][NextHealth]_vars

\* ------------------------------------------------------------- OpenCV pipeline

\* The files the processor writes into its project directory.
Artifacts ==
    {"stitched_panorama.jpg", "ndvi_map.jpg", "health_analysis.jpg",
     "metadata.json", "field_boundaries.jpg"}

\* An exception leaves the call: the caller is given no dictionary.
OpencvRaised(stage) ==
    [NoOpencvResult EXCEPT !.outcome = "raised", !.error = stage]

\* The dictionary process_drone_survey returns; it has no status key.
OpencvReturned(fields) ==
    [NoOpencvResult EXCEPT !.outcome = "returned", !.fields = fields]

\* A stage of the pipeline that raises: nothing catches it.
OpencvFails(stage) ==
    /\ opencv_result' = OpencvRaised(stage)
    /\ opencv_pc' = "done"
    /\ UNCHANGED <<opencv_files, opencv_written, stitching_result>>

\* A stage that writes its file and adds its key to the result.
OpencvStage(file, field, next) ==
    /\ opencv_files' = opencv_files \cup {file}
    /\ opencv_written' = opencv_written \cup {file}
    /\ stitching_result' = stitching_result \cup {field}
    /\ opencv_pc' = next
    /\ UNCHANGED opencv_result

\* stitch_images: mkdir(exist_ok=True) and the cv2.imread loop, which skips
\* the paths it cannot load.
OpencvLoad ==
    /\ opencv_pc = "called"
    /\ images' \in 0..image_paths
    /\ opencv_pc' = "stitch"
    /\ UNCHANGED <<image_paths, opencv_files, opencv_written, stitching_result,
                   opencv_result, exceptOpencv>>

\* stitcher.stitch: fewer than two images cannot be stitched; two or more
\* may lack overlap. Any status but OK raises ValueError.
OpencvStitch ==
    /\ opencv_pc = "stitch"
    /\ \/ /\ images >= 2
          /\ opencv_pc' = "save"
          /\ UNCHANGED <<opencv_files, opencv_written, stitching_result,
                         opencv_result>>
       \/ OpencvFails("stitch")
    /\ UNCHANGED <<image_paths, images, exceptOpencv>>

\* cv2.imwrite of the panorama: its boolean result is not looked at.
OpencvSave ==
    /\ opencv_pc = "save"
    /\ \/ OpencvStage("stitched_panorama.jpg", "stitched_image", "ndvi")
       \/ /\ stitching_result' = stitching_result \cup {"stitched_image"}
          /\ opencv_pc' = "ndvi"
          /\ UNCHANGED <<opencv_files, opencv_written, opencv_result>>
    /\ UNCHANGED <<image_paths, images, exceptOpencv>>

\* generate_ndvi_map
OpencvNdvi ==
    /\ opencv_pc = "ndvi"
    /\ \/ OpencvStage("ndvi_map.jpg", "ndvi_map", "health")
       \/ OpencvFails("ndvi")
    /\ UNCHANGED <<image_paths, images, exceptOpencv>>

\* analyze_crop_health
OpencvHealth ==
    /\ opencv_pc = "health"
    /\ \/ OpencvStage("health_analysis.jpg", "health_analysis", "metadata")
       \/ OpencvFails("health")
    /\ UNCHANGED <<image_paths, images, exceptOpencv>>

\* stitch_images: the statistics, metadata.json and the return.
OpencvMetadata ==
    /\ opencv_pc = "metadata"
    /\ \/ OpencvStage("metadata.json", "processing_stats", "reload")
       \/ OpencvFails("metadata")
    /\ UNCHANGED <<image_paths, images, exceptOpencv>>

\* process_drone_survey: cv2.imread of the panorama's path gives None when
\* no such file can be read, and that raises ValueError.
OpencvReload ==
    /\ opencv_pc = "reload"
    /\ IF "stitched_panorama.jpg" \in opencv_files
       THEN /\ opencv_pc' = "boundaries"
            /\ UNCHANGED <<opencv_files, opencv_written, stitching_result,
                           opencv_result>>
       ELSE OpencvFails("reload")
    /\ UNCHANGED <<image_paths, images, exceptOpencv>>

\* detect_field_boundaries and the combined dictionary.
OpencvBoundaries ==
    /\ opencv_pc = "boundaries"
    /\ \/ /\ opencv_files' = opencv_files \cup {"field_boundaries.jpg"}
          /\ opencv_written' = opencv_written \cup {"field_boundaries.jpg"}
          /\ opencv_result' =
                OpencvReturned(stitching_result
                                 \cup {"field_boundaries", "processing_pipeline"})
          /\ opencv_pc' = "done"
          /\ UNCHANGED stitching_result
       \/ OpencvFails("boundaries")
    /\ UNCHANGED <<image_paths, images, exceptOpencv>>

\* A call of process_drone_survey with up to MaxImages paths, on a project
\* directory that is new or was filled by an earlier call with this name.
InitOpencv ==
    /\ opencv_pc = "called"
    /\ image_paths \in 0..MaxImages
    /\ images = 0
    /\ opencv_files \in SUBSET Artifacts
    /\ opencv_written = {}
    /\ stitching_result = {}
    /\ opencv_result = NoOpencvResult
    /\ IdleExceptOpencv

NextOpencv ==
    \/ OpencvLoad
    \/ OpencvStitch
    \/ OpencvSave
    \/ OpencvNdvi
    \/ OpencvHealth
    \/ OpencvMetadata
    \/ OpencvReload
    \/ OpencvBoundaries

SpecOpencv == InitOpencv /\ [][NextOpencv]_vars

\* ------------------------------------------------------------- project directories

\* The clock of datetime.now() moves on by a second.
Tick ==
    /\ now < MaxClock
    /\ now' = now + 1
    /\ UNCHANGED <<invocations, images_dirs, exceptDirs>>

\* process_drone_survey is called: a missing project name becomes
\* survey_<now>, and project_dir is made unless it exists.
SurveyCall(i) ==
    /\ invocations[i].pc = "new"
    /\ \E given \in GivenNames \cup {None}, files \in SUBSET ImageNames \ {{}} :
          invocations' =
              [invocations EXCEPT ![i] =
                  [pc |-> "copy",
                   project_name |-> IF given = None THEN DefaultName(now) ELSE given,
                   image_files |-> files,
                   seen |-> {}]]
    /\ UNCHANGED <<now, images_dirs, exceptDirs>>

\* _process_with_local_odm: images_dir is made unless it exists, and the
\* image files are copied into it.
SurveyCopy(i) ==
    /\ invocations[i].pc = "copy"
    /\ images_dirs' =
          [images_dirs EXCEPT ![invocations[i].project_name] =
              @ \cup invocations[i].image_files]
    /\ invocations' = [invocations EXCEPT ![i].pc = "run"]
    /\ UNCHANGED <<now, exceptDirs>>

\* _run_odm_processing: the executable is started on images_dir and finds
\* there what the directory holds.
SurveyRun(i) ==
    /\ invocations[i].pc = "run"
    /\ invocations' =
          [invocations EXCEPT ![i].pc = "done",
                              ![i].seen = images_dirs[invocations[i].project_name]]
    /\ UNCHANGED <<now, images_dirs, exceptDirs>>

InitDirs == DirsIdle /\ IdleExceptDirs

NextDirs ==
    \/ Tick
    \/ \E i \in 1..MaxSurveys : SurveyCall(i)
    \/ \E i \in 1..MaxSurveys : SurveyCopy(i)
    \/ \E i \in 1..MaxSurveys : SurveyRun(i)

SpecDirs == InitDirs /\ [][NextDirs]_vars

\* ------------------------------------------------------------- download listing

\* The JSON values a listing holds: strings, and values that are not strings.
\* text is what str() makes of the value.
JsonItems ==
    {[type |-> "str", text |-> "orthophoto.tif"],
     [type |-> "str", text |-> "ndvi.tif"],
     [type |-> "int", text |-> "7"]}

JsonLists == UNION {[1..k -> JsonItems] : k \in 0..MaxItems}

\* The JSON values GET /task/{id}/download can answer with: a list, an
\* object (without files, with files a list, with files something else), or
\* a scalar.
Responses ==
    {[kind |-> "list", files_kind |-> "absent", items |-> l] : l \in JsonLists}
    \cup {[kind |-> "dict", files_kind |-> "list", items |-> l] : l \in JsonLists}
    \cup {[kind |-> "dict", files_kind |-> k, items |-> <<>>] : k \in {"absent", "other"}}
    \cup {[kind |-> "scalar", files_kind |-> "absent", items |-> <<>>]}

\* [str(item) for item in items]
StrItems(items) == [i \in 1..Len(items) |-> items[i].text]

\* A normalisation that knows the bare list only.
get_task_downloads_list_only(r) ==
    IF r.kind = "list" THEN StrItems(r.items) ELSE <<>>

\* get_task_downloads: the list it returns for a response.
get_task_downloads(r) ==
    IF r.kind = "list" THEN StrItems(r.items)
    ELSE IF r.kind = "dict" /\ r.files_kind # "absent"
    THEN IF r.files_kind = "list" THEN StrItems(r.items) ELSE <<>>
    ELSE <<>>

\* One call of get_task_downloads: the request fails and its exception is
\* raised again, or the response is normalised.
GetTaskDownloads ==
    /\ listing.outcome = "none"
    /\ \/ listing' = [outcome |-> "raised", files |-> <<>>]
       \/ listing' = [outcome |-> "returned", files |-> get_task_downloads(response)]
    /\ UNCHANGED <<response, exceptListing>>

InitListing ==
    /\ response \in Responses
    /\ listing = NoListing
    /\ IdleExceptListing

NextListing == GetTaskDownloads

SpecListing == InitListing /\ [][NextListing]_vars

\* ------------------------------------------------------------- vegetation index

\* val < t for the index val = num / den (just under it when below) and the
\* threshold t = tn / 100.
IndexLess(num, den, below, tn) ==
    \/ 100 * num < tn * den
    \/ 100 * num = tn * den /\ below

\* (ndvi + 1) / 2 with ndvi = (nir - red) / (nir + red + 1e-10) and nir the
\* green channel, as <<num, den>>: green / (green + red), and 1/2 for a
\* black pixel, where the numerator is 0 and 1e-10 keeps the division
\* defined.
NdviNormalized(red, green) ==
    IF red + green = 0 THEN <<1, 2>> ELSE <<green, green + red>>

\* The band of the colour ramp: if val < 0.33 ... elif val < 0.66 ... else.
NdviBand(num, den, below) ==
    IF IndexLess(num, den, below, 33) THEN 1
    ELSE IF IndexLess(num, den, below, 66) THEN 2
    ELSE 3

\* int(x) for x = n / d >= 0 in floating point: the integer part; short
\* tells that rounding left a whole-numbered x just under its value.
IntOf(n, d, short) ==
    IF n <= 0 THEN 0
    ELSE IF n % d = 0 /\ short THEN n \div d - 1
    ELSE n \div d

\* A green channel that forgets the division by the band width.
GreenIntensityUnscaled(num, den, short) == IntOf(255 * 3 * num, den, short)

\* int(255 * (val / 0.33))
GreenIntensity(num, den, short) == IntOf(25500 * num, 33 * den, short)

\* int(255 * (1 - (val - 0.33) / 0.33))
RedIntensity(num, den, short) ==
    IntOf(255 * (66 * den - 100 * num), 33 * den, short)

\* generate_ndvi_map on one pixel. Floating-point arithmetic is the exact
\* arithmetic up to rounding, which shows where the exact value is a
\* threshold or a whole number: the result may lie just under it.
GenerateNdviMap ==
    /\ ~ndvi_colored.done
    /\ \E below \in BOOLEAN, short \in BOOLEAN :
          LET val == NdviNormalized(rgb[1], rgb[2])
              num == val[1]
              den == val[2]
              \* 0, 1/2 and 1 are computed exactly.
              under == below /\ num # 0 /\ num # den /\ 2 * num # den
              band == NdviBand(num, den, under)
          IN  ndvi_colored' =
                 [done |-> TRUE, band |-> band, num |-> num, den |-> den,
                  below |-> under,
                  blue_intensity |-> 0,
                  green_intensity |->
                      IF band = 1 THEN GreenIntensity(num, den, short \/ under)
                      ELSE 255,
                  red_intensity |->
                      IF band = 1 THEN 255
                      ELSE IF band = 2 THEN RedIntensity(num, den, short)
                      ELSE 0]
    /\ UNCHANGED <<rgb, exceptNdvi>>

\* Every pixel: red and green in 0..MaxChannel.
InitNdvi ==
    /\ rgb \in (0..MaxChannel) \X (0..MaxChannel)
    /\ ndvi_colored = NoColour
    /\ IdleExceptNdvi

NextNdvi == GenerateNdviMap

SpecNdvi == InitNdvi /\ [][NextNdvi]_vars

\* ------------------------------------------------------------- field boundaries

\* min_area = 1000
min_area == 1000

\* cv2.contourArea of a contour: areas around min_area.
ContourAreas == {0, min_area - 1, min_area, min_area + 1, 5 * min_area}

\* cv2.findContours: any contours, in any order.
ContourLists == UNION {[1..n -> ContourAreas] : n \in 0..MaxContours}

\* A filter that keeps a contour of exactly min_area.
large_contours_inclusive(cs) == {i \in DOMAIN cs : cs[i] >= min_area}

\* [c for c in contours if cv2.contourArea(c) > min_area], as the positions
\* of the contours kept.
large_contours(cs) == {i \in DOMAIN cs : cs[i] > min_area}

\* detect_field_boundaries: the contours kept are drawn on a copy of the
\* image, the copy is written and the two counts are returned.
DetectFieldBoundaries ==
    /\ ~boundaries.done
    /\ LET large == large_contours(contours)
       IN  /\ boundary_image' = [mosaic EXCEPT !.drawn = @ \cup large]
           /\ boundaries' = [done |-> TRUE,
                             total_contours |-> Len(contours),
                             large_contours |-> Cardinality(large)]
    /\ UNCHANGED <<contours, mosaic, exceptBoundaries>>

InitBoundaries ==
    /\ contours \in ContourLists
    /\ mosaic = Mosaic
    /\ boundary_image = None
    /\ boundaries = NoBoundaries
    /\ IdleExceptBoundaries

NextBoundaries == DetectFieldBoundaries

SpecBoundaries == InitBoundaries /\ [][NextBoundaries]_vars

\* ------------------------------------------------------------- HTTP handler and store

\* f"survey_{datetime.now().strftime('%Y%m%d_%H%M%S')}": one name a second.
SurveyId(t) == "survey_" \o ToString(t)

\* f"area_{datetime.now().strftime('%Y%m%d_%H%M%S')}"
AreaId(t) == "area_" \o ToString(t)

\* INSERT into a table whose id is the PRIMARY KEY: a row with an id that
\* is already there is rejected (sqlite3.IntegrityError), and the except
\* clause of the caller re-raises.
Insert(table, row) ==
    IF \E r \in table : r.id = row.id
    THEN [outcome |-> "raised", table |-> table, id |-> None]
    ELSE [outcome |-> "returned", table |-> table \cup {row}, id |-> row.id]

\* create_drone_survey: survey_data.get('id', survey_<now>) and
\* survey_data.get('status', 'completed').
create_drone_survey(table, id, given_status, t) ==
    Insert(table, [id |-> IF id = None THEN SurveyId(t) ELSE id,
                   status |-> IF given_status = None THEN "completed" ELSE given_status])

\* create_farm_area: area_data.get('id', area_<now>) and
\* area_data.get('health_status', 'healthy').
create_farm_area(table, id, given_status, t) ==
    Insert(table, [id |-> IF id = None THEN AreaId(t) ELSE id,
                   status |-> IF given_status = None THEN "healthy" ELSE given_status])

\* A second passes.
TickSecond ==
    /\ second < MaxSecond
    /\ second' = second + 1
    /\ UNCHANGED <<odm_service, db_service, drone_surveys, farm_areas,
                   store_calls, handler, exceptApi>>

\* A caller of the store creates a drone survey and supplies no id.
CreateDroneSurvey ==
    /\ db_service
    /\ Len(store_calls) < MaxCalls
    /\ LET created == create_drone_survey(drone_surveys, None, None, second)
       IN  /\ drone_surveys' = created.table
           /\ store_calls' = Append(store_calls,
                 [table |-> "drone_surveys", second |-> second,
                  outcome |-> created.outcome, id |-> created.id])
    /\ UNCHANGED <<second, odm_service, db_service, farm_areas, handler,
                   exceptApi>>

\* A caller of the store creates a farm area and supplies no id.
CreateFarmArea ==
    /\ db_service
    /\ Len(store_calls) < MaxCalls
    /\ LET created == create_farm_area(farm_areas, None, None, second)
       IN  /\ farm_areas' = created.table
           /\ store_calls' = Append(store_calls,
                 [table |-> "farm_areas", second |-> second,
                  outcome |-> created.outcome, id |-> created.id])
    /\ UNCHANGED <<second, odm_service, db_service, drone_surveys, handler,
                   exceptApi>>

\* What odm_service.process_drone_survey and odm_client.create_task can do.
ServiceOutcomes == {"success", "error", "raised"}
ClientOutcomes == {"returned", "raised"}

\* process_drone_survey, lines 679-700: the ODM service if there is one; the
\* NodeODM client if there is none or it raised; a mock task if the client
\* raised. A result of the service has no 'uuid', a task of the client has.
HandlerBackends(q) ==
    /\ handler[q].pc = "start"
    /\ \E service_outcome \in ServiceOutcomes, client_outcome \in ClientOutcomes :
          LET service == IF odm_service THEN service_outcome ELSE "not_called"
              client == IF ~odm_service \/ service = "raised"
                        THEN client_outcome ELSE "not_called"
              mock == client = "raised"
          IN  handler' = [handler EXCEPT ![q] =
                 [@ EXCEPT !.pc = "backends_done",
                           !.service = service,
                           !.client = client,
                           !.mock = mock,
                           !.task_id = IF mock THEN "mock_task"
                                       ELSE IF client = "returned" THEN "uuid"
                                       ELSE None]]
    /\ UNCHANGED <<second, odm_service, db_service, drone_surveys, farm_areas,
                   store_calls, exceptApi>>

\* process_drone_survey, lines 702-725: the survey record is named after
\* the second and stored if there is a store; an exception of the store
\* becomes the response 500.
HandlerRecord(q) ==
    /\ handler[q].pc = "backends_done"
    /\ LET survey_data == [id |-> SurveyId(second), status |-> "processing"]
           created == create_drone_survey(drone_surveys, survey_data.id,
                                          survey_data.status, second)
           raised == db_service /\ created.outcome = "raised"
       IN  /\ drone_surveys' = IF db_service THEN created.table ELSE drone_surveys
           /\ handler' = [handler EXCEPT ![q] =
                 [@ EXCEPT !.pc = "responded",
                           !.survey_data = survey_data,
                           !.response =
                               IF raised
                               THEN [status |-> "500", survey_id |-> None]
                               ELSE [status |-> "success",
                                     survey_id |-> survey_data.id]]]
    /\ UNCHANGED <<second, odm_service, db_service, farm_areas, store_calls,
                   exceptApi>>

\* After startup_event: either service may have failed to initialise; the
\* tables are empty.
InitApi ==
    /\ second = 0
    /\ odm_service \in BOOLEAN
    /\ db_service \in BOOLEAN
    /\ drone_surveys = {}
    /\ farm_areas = {}
    /\ store_calls = <<>>
    /\ handler = [q \in Requests |-> NoRequest]
    /\ IdleExceptApi

NextApi ==
    \/ TickSecond
    \/ CreateDroneSurvey
    \/ CreateFarmArea
    \/ \E q \in Requests : HandlerBackends(q)
    \/ \E q \in Requests : HandlerRecord(q)

SpecApi == InitApi /\ [][NextApi]_vars

\* ------------------------------------------------------------- claims

\* Positions inside the remote path and inside the local path.
RemotePcs ==
    {"create_task", "wait_check", "wait_query", "wait_sleep", "list_downloads",
     "download", "cleanup", "remote_done"}

LocalPcs == {"local_copy", "local_run", "local_return"}

\* The remote path is over (it returned to ODMService.process_drone_survey).
RemoteOver == calls["remote"] = 1 /\ pc \in {"remote_done", "done"} \cup LocalPcs

CeilDiv(n, k) == (n + k - 1) \div k

\* The remote failures a created or rejected task can end in; the one remote
\* failure outside this set is file_not_found, raised before any request.
ServiceFailures ==
    {"http_error", "connection_error", "no_uuid", "task_failed", "timeout",
     "unknown_status", RequestError, "os_error"}

\* C1: in one call the remote path starts at most once, the local path starts
\* at most once, and while the remote path runs the local path has not
\* started yet (so the remote path never starts after the local one); after a
\* local failure nothing is started again.
C1_FallbackSingleShot ==
    /\ calls["remote"] <= 1
    /\ calls["local"] <= 1
    /\ calls["odm"] <= 1
    /\ pc \in RemotePcs => calls["remote"] = 1 /\ calls["local"] = 0
    /\ pc \in LocalPcs => calls["local"] = 1

C1_Witness ==
    /\ pc = "done"
    /\ calls["remote"] = 1
    /\ calls["local"] = 1
    /\ run_result.status = "error"

\* C2: when the remote path ended unsuccessfully, the call ran the local path
\* exactly once and what it gave its caller is what the local path produced,
\* never the remote error result; for every failure of the remote service
\* (creation rejected, FAILED, timeout, malformed or unknown answer, request
\* or download error) the local executable ran once and a result was returned.
C2_RemoteFailureFallsBack ==
    (pc = "done" /\ calls["remote"] = 1 /\ remote_result.status = "error") =>
        /\ calls["local"] = 1
        /\ result.backend = "local"
        /\ result # remote_result
        /\ remote_result.error \in ServiceFailures =>
              /\ calls["odm"] = 1
              /\ result.outcome = "returned"
              /\ result = LocalResult(run_result, project_files)

C2_Witness ==
    /\ pc = "done"
    /\ remote_result.error = "http_error"
    /\ calls["local"] = 1
    /\ result.backend = "local"
    /\ result.outcome = "returned"

\* C3 (state part): once create_task returned an id and the remote path is
\* over, delete was requested exactly once; when create_task failed, no
\* status, list, download or delete request was ever issued; delete is never
\* requested twice.
C3_DeleteState ==
    /\ calls["delete"] <= 1
    /\ pc = "cleanup" => task_uuid # None /\ calls["delete"] = 0
    /\ RemoteOver =>
          IF task_uuid # None
          THEN calls["delete"] = 1
          ELSE /\ calls["status"] = 0
               /\ calls["list"] = 0
               /\ calls["download"] = 0
               /\ calls["delete"] = 0

\* C3: delete_task is attempted exactly once on every exit path after
\* create_task returned an id, nothing is requested when create_task failed,
\* and the step that deletes the task leaves the result being returned as it
\* was, whether the delete succeeded or not.
C3_DeleteAlwaysOnce ==
    /\ []C3_DeleteState
    /\ [][calls'["delete"] > calls["delete"] => remote_result' = remote_result]_vars

C3_Witness ==
    /\ pc = "remote_done"
    /\ task_uuid # None
    /\ remote_result.error = "os_error"
    /\ calls["download"] = 2
    /\ calls["delete"] = 1

\* C4: create -> poll -> download -> delete in strict sequence: a status
\* query needs a created task; listing and downloading happen only after a
\* status query answered COMPLETED; the delete is issued only when the
\* download loop is past its last listed artifact or an error aborted the
\* sequence, and no request follows it.
C4_StrictSequence ==
    /\ calls["status"] > 0 => calls["create"] = 1 /\ task_uuid # None
    /\ pc \in {"wait_check", "wait_query", "wait_sleep"} =>
          calls["list"] = 0 /\ calls["download"] = 0 /\ calls["delete"] = 0
    /\ (pc \in {"list_downloads", "download"} \/ calls["list"] > 0
          \/ calls["download"] > 0) => status = "COMPLETED"
    /\ pc \in {"list_downloads", "download"} => calls["delete"] = 0
    /\ pc = "download" => calls["download"] = next_download - 1
    /\ pc = "cleanup" =>
          \/ remote_result.status = "error"
          \/ /\ remote_result.status = "success"
             /\ next_download = Len(downloads) + 1
             /\ calls["download"] = Len(downloads)
    /\ calls["delete"] = 1 => pc \notin RemotePcs \ {"remote_done"}

C4_Witness ==
    /\ pc = "remote_done"
    /\ remote_result.status = "success"
    /\ calls["status"] = 2
    /\ calls["list"] = 1
    /\ calls["download"] = 2
    /\ calls["delete"] = 1

\* C5: with a poll budget of timeout seconds and a poll interval of
\* poll_interval seconds, wait_for_task never issues more than
\* ceil(timeout / poll_interval) + 1 status queries.
C5_PollBound == calls["status"] <= CeilDiv(timeout, poll_interval) + 1

C5_Witness ==
    /\ remote_result.error = "timeout"
    /\ calls["status"] = CeilDiv(timeout, poll_interval) + 1

\* C6 as stated: after a status outside the enum the call does not fall back
\* to the local backend and returns the unknown-status error.
C6_UnknownStatusFatal ==
    (pc = "done" /\ remote_result.error = "unknown_status") =>
        /\ calls["local"] = 0
        /\ result.status = "error"
        /\ result.error = "unknown_status"

\* C6 as amended: a status outside the enum ends the remote path at once with
\* an error result that carries the unknown-status error, and the call then
\* falls back to the local backend like after any other remote failure: the
\* caller gets the local path's result, in which the unknown-status error
\* does not appear.
C6_UnknownStatusFallsBack ==
    /\ (remote_result.error = "unknown_status") =>
          /\ status \notin {"QUEUED", "RUNNING", "COMPLETED", "FAILED"}
          /\ remote_result.status = "error"
          /\ pc \notin {"wait_check", "wait_query", "wait_sleep",
                        "list_downloads", "download"}
    /\ (pc = "done" /\ remote_result.error = "unknown_status") =>
          /\ calls["local"] = 1
          /\ calls["odm"] = 1
          /\ result.backend = "local"
          /\ result.outcome = "returned"
          /\ result.error # "unknown_status"

C6_Witness ==
    /\ pc = "done"
    /\ status = "PAUSED"
    /\ remote_result.error = "unknown_status"
    /\ result.backend = "local"

\* C7: the call never lets an exception escape: it ends with a returned
\* result dictionary that carries a status.
C7_NeverRaises ==
    pc = "done" =>
        /\ result.outcome = "returned"
        /\ result.status \in {"success", "error"}

\* C8: when the local executable exits nonzero, times out or cannot be
\* started, the returned result has status error with an error detail, never
\* status success.
C8_LocalFailureIsError ==
    (pc = "done" /\ result.backend = "local" /\ result.outcome = "returned"
        /\ run_result.status \in {"error", "timeout"}) =>
        /\ result.status = "error"
        /\ result.error # None

\* A backend failed during the call.
BackendFailed ==
    \/ remote_result.status = "error"
    \/ run_result.status \in {"error", "timeout"}
    \/ result.outcome = "raised"

\* C9 as stated: after a backend failure the call has run the image-analysis
\* pipeline on the raw images.
C9_DegradedPipeline == (pc = "done" /\ BackendFailed) => calls["pipeline"] >= 1

\* C9 as amended: the orchestrator never runs the image-analysis pipeline: a
\* remote failure leads to the local backend only, and after a failure what
\* the caller gets is what the local path produced.
C9_NoDegradedPipeline ==
    /\ calls["pipeline"] = 0
    /\ (pc = "done" /\ BackendFailed) => result.backend = "local"

C9_Witness ==
    /\ pc = "done"
    /\ remote_result.status = "error"
    /\ run_result.status = "timeout"
    /\ calls["pipeline"] = 0

\* C10 as stated: a poll iteration that starts with the cancellation signal
\* set ends the wait with a Cancelled outcome, on the way to the delete.
C10_CancelChecked ==
    [][(pc = "wait_check" /\ cancel_requested) =>
          (pc' = "cleanup" /\ remote_result'.error = "cancelled")]_vars

\* C10 (state part): no outcome is Cancelled, and with the signal set a
\* created task is still deleted exactly once when the remote path is over.
C10_CancelState ==
    /\ remote_result.error # "cancelled"
    /\ result.error # "cancelled"
    /\ result.status \in {"none", "success", "error"}
    /\ (cancel_requested /\ RemoteOver /\ task_uuid # None) => calls["delete"] = 1

\* C10 as amended: the code reads no cancellation signal. A poll iteration
\* that starts with the signal set goes on as without it (timeout, or the
\* next status query), the wait ends only on COMPLETED, FAILED, an unknown
\* status, a request error or the timeout, no outcome is Cancelled, and the
\* delete of a created task is still attempted exactly once.
C10_CancelIgnored ==
    /\ []C10_CancelState
    /\ [][(pc = "wait_check" /\ cancel_requested) =>
             \/ pc' = "wait_query" /\ elapsed <= timeout
             \/ pc' = "cleanup" /\ remote_result'.error = "timeout"
                  /\ elapsed > timeout]_vars

C10_Witness ==
    /\ pc = "wait_query"
    /\ cancel_requested
    /\ calls["status"] >= 1

\* The names of the listed artifacts whose download ended as wanted.
NamesWith(outcomes) ==
    {downloads[i] : i \in {j \in 1..Len(download_log) : download_log[j] \in outcomes}}

\* A download reported as failed: get_task_output returned False.
ReportedFailures == {"refused", "broken_stream"}

C15_RunnerOnce ==
    /\ calls["odm"] <= 1
    /\ (run_result.exit = "none") <=> (calls["odm"] = 0)
    /\ pc = "local_return" => calls["odm"] = 1
    /\ run_result.exit = "timeout" => run_result.status = "timeout"
    /\ run_result.exit = "nonzero" =>
          run_result.status = "error" /\ run_result.log = "stderr"
    /\ run_result.exit = "exit0" =>
          run_result.status = "success" /\ run_result.log = "stdout"
    /\ run_result.exit = "not_started" => run_result.status = "error"

C15_Witness ==
    /\ pc = "done"
    /\ calls["odm"] = 1
    /\ run_result.exit = "timeout"
    /\ run_result.status = "timeout"

\* The requests the remote path sends.
RemoteRequests == {"create", "status", "list", "download", "delete"}

\* C17: the backend is chosen once, from the flag and the client: without
\* the flag or without a client no request is ever sent and the local path
\* runs; with both, the remote path is started first and local processing
\* starts only after the remote path is over with a failure.
C17_BackendSelection ==
    /\ calls["remote"] + calls["local"] > 0 <=> pc \notin {"init", "ready"}
    /\ (pc \notin {"init", "ready"} /\ ~(use_nodeodm /\ nodeodm_client)) =>
          /\ calls["remote"] = 0
          /\ \A r \in RemoteRequests : calls[r] = 0
          /\ calls["local"] = 1
    /\ (pc \notin {"init", "ready"} /\ use_nodeodm /\ nodeodm_client) =>
          /\ calls["remote"] = 1
          /\ calls["local"] > 0 =>
                /\ pc \notin RemotePcs
                /\ remote_result.status = "error"
          /\ calls["copy"] + calls["odm"] > 0 => calls["local"] = 1

C17_Witness ==
    /\ pc = "done"
    /\ use_nodeodm
    /\ nodeodm_client
    /\ calls["remote"] = 1
    /\ calls["local"] = 1
    /\ calls["odm"] = 1

\* C18 (state part): the download list is asked for only after COMPLETED, and
\* once FAILED or a status outside the enum was answered the wait is over.
C18_WaitState ==
    /\ pc = "list_downloads" => status = "COMPLETED"
    /\ (pc \in {"wait_check", "wait_query", "wait_sleep"} /\ calls["status"] > 0) =>
          status \in {"QUEUED", "RUNNING"}
    /\ pc = "wait_sleep" => calls["status"] > 0

\* C18: a status query ends the wait with the task only on COMPLETED, with a
\* task-failed error on FAILED, with an unknown-status error on any answer
\* outside the enum (a missing status included), in both cases with no
\* further status query; on QUEUED or RUNNING it sleeps and polls again.
C18_WaitForTask ==
    /\ []C18_WaitState
    /\ [][calls'["status"] > calls["status"] =>
             \/ /\ status' = "COMPLETED"
                /\ pc' = "list_downloads"
                /\ remote_result' = remote_result
             \/ /\ status' = "FAILED"
                /\ pc' = "cleanup"
                /\ remote_result'.error = "task_failed"
             \/ /\ status' \notin {"QUEUED", "RUNNING", "COMPLETED", "FAILED"}
                /\ pc' = "cleanup"
                /\ remote_result'.error \in {"unknown_status", RequestError}
             \/ /\ status' \in {"QUEUED", "RUNNING"}
                /\ \/ pc' = "wait_sleep" /\ remote_result' = remote_result
                   \/ pc' = "cleanup" /\ remote_result'.error = RequestError
                        /\ status' = status]_vars

C18_Witness ==
    /\ pc = "cleanup"
    /\ status = None
    /\ remote_result.error = "unknown_status"
    /\ calls["status"] = 2

\* C19: create_task gives a non-empty id or fails: the id is never empty; an
\* answer without an id, an HTTP error and an unreachable endpoint all end
\* the remote path with an error; with a missing image file no upload
\* request is sent.
C19_CreateTask ==
    /\ task_uuid # ""
    /\ pc \in {"wait_check", "wait_query", "wait_sleep", "list_downloads",
               "download", "cleanup"} => task_uuid # None /\ calls["create"] = 1
    /\ (RemoteOver /\ task_uuid = None) =>
          /\ remote_result.status = "error"
          /\ remote_result.error \in
                {"file_not_found", "http_error", "connection_error", "no_uuid"}
          /\ remote_result.error = "file_not_found" <=> calls["create"] = 0
    /\ ~images_exist => calls["create"] = 0

C19_Witness ==
    /\ pc = "remote_done"
    /\ task_uuid = None
    /\ remote_result.error = "no_uuid"
    /\ calls["create"] = 1

\* C12: the healthy, stressed and unhealthy masks of analyze_crop_health
\* share no pixel, whatever the image, and each of the three percentages is
\* within [0,100] (here in hundredths of a percent).
C12_DisjointMasks ==
    health_analysis.analysed =>
        /\ health_analysis.healthy_mask \cap health_analysis.stressed_mask = {}
        /\ health_analysis.stressed_mask \cap health_analysis.unhealthy_mask = {}
        /\ health_analysis.healthy_mask \cap health_analysis.unhealthy_mask = {}
        /\ health_analysis.healthy_percentage \in 0..10000
        /\ health_analysis.stressed_percentage \in 0..10000
        /\ health_analysis.unhealthy_percentage \in 0..10000

\* C13: the overall health score is within [0,1] (here in thousandths) and
\* is (healthy% * 1.0 + stressed% * 0.5) / 100.
C13_ScoreInUnitRange ==
    health_analysis.analysed =>
        /\ health_analysis.overall_health_score \in 0..1000
        /\ health_analysis.overall_health_score =
              RoundHalfEven(
                  (2 * Cardinality(health_analysis.healthy_mask)
                     + Cardinality(health_analysis.stressed_mask)) * 1000,
                  2 * health_analysis.total_pixels)

\* The key a pipeline stage contributes to the result.
StageField ==
    [stitch |-> "stitched_image", ndvi |-> "ndvi_map", health |-> "health_analysis",
     metadata |-> "processing_stats", reload |-> "field_boundaries",
     boundaries |-> "field_boundaries"]

\* C14: when stitching fails the survey ends with a result of status error,
\* not with a thrown fault, and none of the pipeline's artifacts is in the
\* project directory.
C14_StitchFailureIsErrorResult ==
    (opencv_pc = "done" /\ opencv_result.error = "stitch") =>
        /\ opencv_result.outcome = "returned"
        /\ opencv_result.status = "error"
        /\ opencv_files \cap Artifacts = {}

\* C20: when a stage fails after earlier stages succeeded, the caller is
\* given a result that holds the fields of the stages that succeeded and
\* lacks only the failed stage's field.
C20_PartialResult ==
    (opencv_pc = "done" /\ opencv_result.error \in
         {"ndvi", "health", "metadata", "reload", "boundaries"}) =>
        /\ opencv_result.outcome = "returned"
        /\ stitching_result \subseteq opencv_result.fields
        /\ StageField[opencv_result.error] \notin opencv_result.fields

\* C16: when an invocation starts the local executable, the images
\* directory it passes holds exactly the images of that invocation, however
\* the invocations follow or overlap each other and whatever their names.
C16_FreshPrivateDir ==
    \A i \in 1..MaxSurveys :
        invocations[i].pc = "done" =>
            invocations[i].seen = invocations[i].image_files

\* C21: wait_for_task never busy-waits. A status query is made only right
\* after a timeout check that found the elapsed time within the timeout; the
\* check is reached only from the start of the wait or from a sleep of at
\* least poll_interval seconds, during which no query is made; a query that
\* is answered QUEUED or RUNNING leads to exactly that sleep.
C21_NoBusyWait ==
    /\ [][calls'["status"] > calls["status"] =>
             /\ pc = "wait_query"
             /\ ~(elapsed > timeout)
             /\ calls'["status"] = calls["status"] + 1
             /\ pc' \in {"wait_sleep", "list_downloads", "cleanup"}]_vars
    /\ [][(pc' = "wait_query" /\ pc # "wait_query") => pc = "wait_check"]_vars
    /\ [][(pc' = "wait_check" /\ pc # "wait_check") =>
             \/ pc = "create_task" /\ elapsed' = 0 /\ calls'["status"] = 0
             \/ /\ pc = "wait_sleep"
                /\ elapsed' >= elapsed + poll_interval
                /\ calls' = calls]_vars
    /\ [][(pc = "wait_sleep" /\ pc' # "wait_sleep") => pc' = "wait_check"]_vars

C21_Witness ==
    /\ pc = "wait_query"
    /\ calls["status"] = 2
    /\ elapsed >= 2 * poll_interval
    /\ elapsed <= timeout

\* C22: get_task_downloads gives the items of a bare list in order, the
\* items of the files list of an object in order, both as strings, and the
\* empty list for every other response; a response never makes it fail.
C22_ListingNormalised ==
    listing.outcome = "returned" =>
        /\ \A i \in 1..Len(listing.files) :
              listing.files[i] \in {"orthophoto.tif", "ndvi.tif", "7"}
        /\ IF \/ response.kind = "list"
              \/ response.kind = "dict" /\ response.files_kind = "list"
           THEN /\ Len(listing.files) = Len(response.items)
                /\ \A i \in 1..Len(response.items) :
                      listing.files[i] = response.items[i].text
           ELSE listing.files = <<>>

C22_Witness ==
    /\ listing.outcome = "returned"
    /\ response.kind = "dict"
    /\ response.files_kind = "list"
    /\ listing.files = <<"ndvi.tif", "7", "orthophoto.tif">>

\* The first name of an ordered candidate list that is among the files, or
\* None.
FirstOf(candidates, files) ==
    IF \E i \in 1..Len(candidates) : candidates[i] \in files
    THEN candidates[CHOOSE i \in 1..Len(candidates) :
                       /\ candidates[i] \in files
                       /\ \A j \in 1..(i - 1) : candidates[j] \notin files]
    ELSE None

\* C23: the artifact paths are chosen by fixed names in a fixed order. On
\* the remote path the orthomosaic is the downloaded orthophoto.tif, else
\* odm_orthophoto.tif, else none, and the index ndvi.tif, else odm_ndvi.tif,
\* else none; the local path reports the first of its candidates that exists
\* below the project directory, else none, and a local result without both
\* rasters still has status success.
C23_ArtifactPriority ==
    /\ (result.outcome = "returned" /\ result.backend = "remote"
           /\ result.status = "success") =>
          /\ result.orthomosaic_path =
                FirstOf(<<"orthophoto.tif", "odm_orthophoto.tif">>, result.output_files)
          /\ result.ndvi_path =
                FirstOf(<<"ndvi.tif", "odm_ndvi.tif">>, result.output_files)
    /\ (result.outcome = "returned" /\ result.backend = "local") =>
          /\ result.orthomosaic_path =
                FirstOf(<<"odm_orthophoto/odm_orthophoto.tif", "odm_orthophoto.tif",
                          "orthomosaic.tif">>, project_files)
          /\ result.ndvi_path =
                FirstOf(<<"odm_ndvi/odm_ndvi.tif", "odm_ndvi.tif", "ndvi.tif">>,
                        project_files)
          /\ (result.orthomosaic_path = None /\ result.ndvi_path = None) =>
                result.status = "success"

C23_Witness ==
    /\ pc = "done"
    /\ result.backend = "remote"
    /\ {"orthophoto.tif", "odm_orthophoto.tif", "odm_ndvi.tif"} \subseteq result.output_files
    /\ result.orthomosaic_path = "orthophoto.tif"
    /\ result.ndvi_path = "odm_ndvi.tif"

\* C27: the local backend is run after the remote one exactly when the
\* remote result's status is not success. A remote run that reached
\* COMPLETED and retrieved no artifact (nothing listed, or every download
\* failed) is given to the caller as success with both paths absent, and
\* the local path is not run.
C27_FallbackOnlyOnFailure ==
    /\ (calls["remote"] = 1 /\ pc \in {"done"} \cup LocalPcs) =>
          (calls["local"] = 1 <=> remote_result.status # "success")
    /\ (pc = "done" /\ remote_result.status = "success"
           /\ remote_result.output_files = {}) =>
          /\ status = "COMPLETED"
          /\ result = remote_result
          /\ result.outcome = "returned"
          /\ result.orthomosaic_path = None
          /\ result.ndvi_path = None
          /\ calls["local"] = 0
          /\ calls["copy"] = 0
          /\ calls["odm"] = 0

C27_Witness ==
    /\ pc = "done"
    /\ status = "COMPLETED"
    /\ calls["download"] = 3
    /\ result.backend = "remote"
    /\ result.status = "success"
    /\ result.output_files = {}
    /\ result.orthomosaic_path = None
    /\ calls["local"] = 0

\* C28: a path the local path reports is a raster its own run of the
\* executable produced, never a file the remote downloads left in the
\* project directory, and a run that failed or timed out reports no path.
C28_OnlyOwnArtifacts ==
    (result.outcome = "returned" /\ result.backend = "local") =>
        /\ result.orthomosaic_path \in {None} \cup LocalOutputs
        /\ result.ndvi_path \in {None} \cup LocalOutputs
        /\ run_result.status # "success" =>
              result.orthomosaic_path = None /\ result.ndvi_path = None

\* C24: for every red and green in 0..255 the normalized index is within
\* [0,1], and 1/2 for a black pixel. The ramp has three bands: under 0.33 red
\* is 255 and green rises from 0 as 255 * index / 0.33; from 0.33 to under
\* 0.66 green is 255 and red falls as 255 * (0.66 - index) / 0.33; from 0.66
\* on the pixel is pure green. Every channel is within 0..255, blue is 0.
C24_NdviRamp ==
    ndvi_colored.done =>
        LET c == ndvi_colored
            lt33 == IndexLess(c.num, c.den, c.below, 33)
            lt66 == IndexLess(c.num, c.den, c.below, 66)
        IN  /\ c.den > 0 /\ 0 <= c.num /\ c.num <= c.den
            /\ c.num = 0 => ~c.below
            /\ rgb = <<0, 0>> => (2 * c.num = c.den /\ ~c.below)
            /\ c.band \in {1, 2, 3}
            /\ c.band = 1 <=> lt33
            /\ c.band = 2 <=> (~lt33 /\ lt66)
            /\ c.band = 3 <=> ~lt66
            /\ c.band = 1 =>
                  /\ c.red_intensity = 255
                  /\ c.num = 0 => c.green_intensity = 0
                  /\ c.green_intensity \in 0..254
                  /\ 33 * c.den * c.green_intensity <= 25500 * c.num
                  /\ 25500 * c.num <= 33 * c.den * (c.green_intensity + 1)
            /\ c.band = 2 =>
                  /\ c.green_intensity = 255
                  /\ 33 * c.den * c.red_intensity <= 255 * (66 * c.den - 100 * c.num)
                  /\ 255 * (66 * c.den - 100 * c.num) <= 33 * c.den * (c.red_intensity + 1)
            /\ c.band = 3 => (c.red_intensity = 0 /\ c.green_intensity = 255)
            /\ c.blue_intensity = 0
            /\ c.green_intensity \in 0..255
            /\ c.red_intensity \in 0..255

C24_Witness ==
    /\ ndvi_colored.done
    /\ rgb = <<6, 11>>
    /\ ndvi_colored.band = 2
    /\ ndvi_colored.red_intensity = 9
    /\ ndvi_colored.green_intensity = 255

\* C25: boundary detection reports a total count that is at least the
\* significant count, which is at least 0; the significant contours are
\* exactly those whose area is strictly greater than 1000; only they are
\* drawn, on a copy of the mosaic, and the mosaic itself is not modified.
C25_ContourCounts ==
    boundaries.done =>
        LET significant == {i \in 1..Len(contours) : contours[i] > 1000}
        IN  /\ boundaries.total_contours >= boundaries.large_contours
            /\ boundaries.large_contours >= 0
            /\ boundaries.total_contours = Len(contours)
            /\ boundaries.large_contours = Cardinality(significant)
            /\ boundary_image.drawn = significant
            /\ boundary_image.pixels = Mosaic.pixels
            /\ mosaic = Mosaic

C25_Witness ==
    /\ boundaries.done
    /\ contours = <<1000, 1001, 999>>
    /\ boundaries.total_contours = 3
    /\ boundaries.large_contours = 1
    /\ boundary_image.drawn = {2}

\* C29: the handler calls the NodeODM client only when the ODM service is
\* missing or raised, builds a mock task only when that client raised, does
\* neither after an error result of the service, and in every case creates
\* a survey record with status 'processing' and responds with success.
C29_HandlerOrder ==
    \A q \in Requests :
        handler[q].pc = "responded" =>
            LET h == handler[q]
            IN  /\ h.client # "not_called" <=> (~odm_service \/ h.service = "raised")
                /\ h.mock <=> h.client = "raised"
                /\ h.service = "error" => (h.client = "not_called" /\ ~h.mock)
                /\ h.survey_data.status = "processing"
                /\ h.response.status = "success"
                /\ db_service =>
                      \E row \in drone_surveys :
                          row.id = h.response.survey_id /\ row.status = "processing"

\* C30: every create_ call that supplies no id succeeds, and no two of them
\* on one table get the same identifier.
C30_DistinctIdentifiers ==
    /\ \A i \in DOMAIN store_calls : store_calls[i].outcome = "returned"
    /\ \A i, j \in DOMAIN store_calls :
          (i # j /\ store_calls[i].table = store_calls[j].table) =>
              store_calls[i].id # store_calls[j].id

====
